---- MODULE Spec2Model ----
(***************************************************************************)
(* Model of public/examples/signal_generator.py: the two HTTP call sites   *)
(* (get_bars, submit_signals), the inside-bar generator (generate_signals) *)
(* and the runner (run_once, run_continuous).                              *)
(*                                                                         *)
(* Prices are Python floats (IEEE-754 binary64), modelled as integers in    *)
(* one of two scales:                                                      *)
(*   "decimal": prices in [1, 2), where binary64 numbers are one ulp =     *)
(*      2^-52 apart.  The inputs are decimals with four places, counted in *)
(*      quanta of 0.00005; a quantum is 2^47 / 625 = 225179981368 +        *)
(*      328/625 ulps.  A price is its mantissa in ulps, written with 64 in *)
(*      place of 225179981368: the double of q quanta is the integer       *)
(*      nearest to q * (64 + 328/625).  Both integers are multiples of 4   *)
(*      and exceed every rounding error, so sums, differences, halves,     *)
(*      comparisons, parities and ties come out as in binary64, in         *)
(*      numbers that fit 32-bit integers.                                  *)
(*   "binade": prices next to 2^44.  The quantum is 2^-9 / 1000 and a      *)
(*      price p stands for 2^44 + p * 2^-9 / 1000, so 0.0005 is 256        *)
(*      quanta.  The binary64 numbers are 1000 quanta apart below 2^44     *)
(*      and 2000 quanta apart from 2^44 on.                                *)
(* In both scales every operation rounds to the nearest binary64 number,   *)
(* ties to the even mantissa.                                              *)
(* Ctrl+C is asynchronous: one interrupt per run is modelled, at any of    *)
(* the moments that leave the state different.                             *)
(* Code indices are 0-based; At(s, i) reads the code's s[i].               *)
(***************************************************************************)
EXTENDS Integers, Sequences, FiniteSets, TLC

VARIABLES
    mode,         \* "generate" | "once" | "continuous": which entry point runs
    scale,        \* "decimal" | "binade": the magnitude of the prices (see above)
    interval,     \* run_continuous's interval_seconds
    pc,           \* position of the program
    get_resp,     \* outcome of the last requests.get
    bars,         \* run_once's local bars (the value get_bars returned)
    points,       \* the points list generate_signals returned
    lines,        \* the lines list generate_signals returned
    post_resp,    \* outcome of the last requests.post
    result,       \* value run_once returned: "True", "False", or "none" while it has not returned
    exc,          \* exception in flight or escaped: "none" or its class name
    interrupted,  \* where Ctrl+C struck: "none", or the position of the program then
    payload,      \* JSON payload handed to the last requests.post
    success,      \* value submit_signals returned: "True", "False", or "none" before it returns
    calls         \* calls started in the current cycle, in order

vars == <<mode, scale, interval, pc, get_resp, bars, points, lines, post_resp,
          result, exc, interrupted, payload, success, calls>>

----------------------------------------------------------------------------
(* Bounds of the model *)

MaxLen == 4        \* longest bar sequence handed to generate_signals
MaxFetchLen == 3   \* longest bar list a GET response carries

(* Program constants *)

LINE_BARS == 15    \* "bars": 15
POINT_SIZE == 2    \* "size": 2

----------------------------------------------------------------------------
(* Input domains *)

\* The binary64 number nearest to the decimal of q quanta (a JSON number such
\* as 1.0454 once parsed): round(q * 40328 / 625), 40328 = 625 * 64 + 328.
Dbl(q) == (q * 40328 + 312) \div 625

\* The number of quanta nearest to the "decimal" price p.
Quanta(p) == (p * 1250 + 40328) \div 80656

\* <<high, low>> of the input bars in quanta, all with low <= high:
\*   1.0500/1.0408  the binary64 midpoint is one ulp below the double of 1.0454
\*   1.0500/1.0410  the sum is a tie and rounds up: the binary64 midpoint is
\*                  the double of 1.0455, half an ulp above the exact midpoint
\*   1.0499/1.0411  inside both of the above
\*   1.0455/1.0455  inside all of the above; its midpoint is exact
\*   1.0499/1.0408  shares the low of the first
Ranges == {<<21000, 20816>>, <<21000, 20820>>, <<20998, 20822>>,
           <<20910, 20910>>, <<20998, 20816>>}
Closes == {20908, 20910, 20912}    \* 1.0454, 1.0455, 1.0456

\* The same three nested ranges just below 2^44 (the widest has its high at
\* 2^44), in quanta of the "binade" scale; every price is a binary64 number.
BinadeRanges == {<<0, -4000>>, <<-1000, -3000>>, <<-2000, -2000>>}
BinadeCloses == {-3000, -2000, -1000, 0}

\* The bar at code index i carries the timestamp of its hour.
BarTime(i) == 3600 * (i + 1)

Bar(h, l, c) == [complete |-> TRUE, high |-> h, low |-> l, close |-> c]

\* A dict without the high/low/close keys.
IncompleteBar == [complete |-> FALSE, high |-> 0, low |-> 0, close |-> 0]

Bars == {Bar(Dbl(r[1]), Dbl(r[2]), Dbl(c)) : r \in Ranges, c \in Closes}

BinadeBars == {Bar(r[1], r[2], c) : r \in BinadeRanges, c \in BinadeCloses}

\* The sequences over S of length n, and of length at most n.
SeqsOfLen(S, n) == [1..n -> S]
SeqsUpTo(S, n) == UNION {SeqsOfLen(S, k) : k \in 0..n}

WithTimes(s) == [i \in 1..Len(s) |-> [time |-> BarTime(i - 1)] @@ s[i]]

At(s, i) == s[i + 1]

----------------------------------------------------------------------------
(* String formatting, as Python's format specs compute it *)

Digit(d) ==
    CASE d = 0 -> "0" [] d = 1 -> "1" [] d = 2 -> "2" [] d = 3 -> "3" [] d = 4 -> "4"
      [] d = 5 -> "5" [] d = 6 -> "6" [] d = 7 -> "7" [] d = 8 -> "8" [] d = 9 -> "9"

RECURSIVE Decimal(_)
Decimal(n) == IF n < 10 THEN Digit(n) ELSE Decimal(n \div 10) \o Digit(n % 10)

RECURSIVE ZeroPad(_, _)
\* str(n) left-padded with zeros to at least `width` characters, n >= 0.
ZeroPad(n, width) ==
    IF width <= 1 THEN Decimal(n)
    ELSE IF n < 10 THEN "0" \o ZeroPad(n, width - 1) ELSE ZeroPad(n \div 10, width - 1) \o Digit(n % 10)

\* f"signal_{signal_count:03d}"
SignalId(signal_count) == "signal_" \o ZeroPad(signal_count, 3)

\* f"{x:.5f}" of x = whole + nano / 10^9 with 0 <= nano < 10^9 and whole >= 0:
\* five decimals, a tie going to the even digit.
FixedNano5(prefix, whole, width, nano) ==
    LET q == nano \div 10000
        rem == nano % 10000
        up == rem > 5000 \/ (rem = 5000 /\ q % 2 = 1)
        frac == IF up THEN q + 1 ELSE q
        carry == IF frac = 100000 THEN 1 ELSE 0
    IN  prefix \o ZeroPad(whole + carry, width) \o "." \o ZeroPad(frac % 100000, 5)

\* f"{price:.5f}" of a price p of the "decimal" scale: p lies within a few
\* ulps of q * 0.00005 for q = Quanta(p), which has five decimals.
Fixed5Decimal(p) ==
    LET n == 5 * Quanta(p)
    IN  FixedNano5("", n \div 100000, 1, (n % 100000) * 10000)

\* f"{price:.5f}" of a price p of the "binade" scale: 17592186044416 +
\* (p / 1000) * 0.001953125, written as 1759218604 followed by four digits.
Fixed5Binade(p) ==
    LET nano == (p \div 1000) * 1953125
    IN  FixedNano5("1759218604", 4416 + (nano \div 1000000000), 4, nano % 1000000000)

\* f"{price:.5f}"
Fixed5(p) == IF scale = "decimal" THEN Fixed5Decimal(p) ELSE Fixed5Binade(p)

----------------------------------------------------------------------------
(* binary64 arithmetic on prices *)

\* x rounded to the nearest multiple of g, a tie going to the even multiple.
RoundTiesEven(x, g) ==
    LET lo == (x \div g) * g
    IN  IF 2 * (x - lo) < g THEN lo
        ELSE IF 2 * (x - lo) > g THEN lo + g
        ELSE IF (lo \div g) % 2 = 0 THEN lo ELSE lo + g

\* Distance between neighbouring binary64 numbers around the price x.
Spacing(x) == IF scale = "decimal" THEN 1 ELSE IF x < 0 THEN 1000 ELSE 2000

\* The binary64 result of an operation whose exact result is num / den.
FloatQ(num, den) == RoundTiesEven(num, den * Spacing(num)) \div den

\* The binary64 result of an operation whose exact result is the price x.
Float(x) == FloatQ(x, 1)

\* The binary64 sum of two prices whose exact sum is s: the sum lies in the
\* next binade, where the spacing is twice that of a price.
FloatSum(s) == RoundTiesEven(s, 2 * Spacing(s))

\* The literal 0.0005 as a fraction of the price unit: 10 quanta = 80656 / 125
\* ulps in the "decimal" scale, 256 quanta in the "binade" scale.
PipOffset == IF scale = "decimal" THEN [num |-> 80656, den |-> 125]
                                  ELSE [num |-> 256, den |-> 1]

----------------------------------------------------------------------------
(* generate_signals *)

IsInsideBar(prev, curr) == curr.high < prev.high /\ curr.low > prev.low

MidPoint(prev) == FloatSum(prev.high + prev.low) \div 2

\* IsBullish with >= in place of >.
IsBullishOrEqual(prev, curr) == curr.close >= MidPoint(prev)

IsBullish(prev, curr) == curr.close > MidPoint(prev)

\* BullishStopLoss measured from the previous high.
BullishStopLossFromHigh(prev) == FloatQ(PipOffset.den * prev.high - PipOffset.num, PipOffset.den)

BullishStopLoss(prev) == FloatQ(PipOffset.den * prev.low - PipOffset.num, PipOffset.den)

\* BearishStopLoss with the offset subtracted.
BearishStopLossBelow(prev) == FloatQ(PipOffset.den * prev.high - PipOffset.num, PipOffset.den)

BearishStopLoss(prev) == FloatQ(PipOffset.den * prev.high + PipOffset.num, PipOffset.den)

\* The difference of two prices and its product by 1, 2 or 3 are binary64
\* numbers themselves (exact); the final addition or subtraction rounds.
BullishTP(entry_price, stop_loss, k) == Float(entry_price + (entry_price - stop_loss) * k)

BearishTP(entry_price, stop_loss, k) == Float(entry_price - (stop_loss - entry_price) * k)

Point(bar_time, type, price, label, color, shape) ==
    [time |-> bar_time, type |-> type, price |-> price, label |-> label,
     color |-> color, shape |-> shape, size |-> POINT_SIZE]

Line(id, price, bar_time, label, color, style, width) ==
    [id |-> id, price |-> price, start_time |-> bar_time, bars |-> LINE_BARS,
     label |-> label, color |-> color, style |-> style, width |-> width]

\* The five lines.append calls of one branch; entry_color is the branch's colour.
BatchLines(signal_id, bar_time, entry_price, stop_loss, tp1, tp2, tp3, entry_color) ==
    << Line(signal_id \o "_entry", entry_price, bar_time,
            "Entry: " \o Fixed5(entry_price), entry_color, "dashed", 1),
       Line(signal_id \o "_sl", stop_loss, bar_time,
            "SL: " \o Fixed5(stop_loss), "#ef4444", "solid", 2),
       Line(signal_id \o "_tp1", tp1, bar_time,
            "TP1: " \o Fixed5(tp1), "#22c55e", "dotted", 1),
       Line(signal_id \o "_tp2", tp2, bar_time,
            "TP2: " \o Fixed5(tp2), "#10b981", "dotted", 1),
       Line(signal_id \o "_tp3", tp3, bar_time,
            "TP3: " \o Fixed5(tp3), "#059669", "dotted", 1) >>

BullishBatch(st, prev, curr) ==
    LET entry_price == curr.close
        stop_loss == BullishStopLoss(prev)
    IN  [st EXCEPT
           !.points = Append(@, Point(curr.time, "low", entry_price, "BUY", "#3b82f6", "arrowUp")),
           !.lines = @ \o BatchLines(SignalId(st.signal_count), curr.time, entry_price, stop_loss,
                                     BullishTP(entry_price, stop_loss, 1),
                                     BullishTP(entry_price, stop_loss, 2),
                                     BullishTP(entry_price, stop_loss, 3), "#3b82f6"),
           !.signal_count = @ + 1]

BearishBatch(st, prev, curr) ==
    LET entry_price == curr.close
        stop_loss == BearishStopLoss(prev)
    IN  [st EXCEPT
           !.points = Append(@, Point(curr.time, "high", entry_price, "SELL", "#f97316", "arrowDown")),
           !.lines = @ \o BatchLines(SignalId(st.signal_count), curr.time, entry_price, stop_loss,
                                     BearishTP(entry_price, stop_loss, 1),
                                     BearishTP(entry_price, stop_loss, 2),
                                     BearishTP(entry_price, stop_loss, 3), "#f97316"),
           !.signal_count = @ + 1]

\* The first index the loop visits: range(2, len(bars)).
FirstIndex == 2

\* LoopBody with signal_count advanced before the inside-bar test.
LoopBodyCountingEveryBar(st, b, i) ==
    LET prev == At(b, i - 1)
        curr == At(b, i)
        counted == [st EXCEPT !.signal_count = @ + 1]
    IN  IF ~curr.complete \/ ~prev.complete THEN [st EXCEPT !.raised = "KeyError"]
        ELSE IF ~IsInsideBar(prev, curr) THEN counted
        ELSE IF IsBullish(prev, curr) THEN BullishBatch(st, prev, curr)
        ELSE BearishBatch(st, prev, curr)

\* One iteration of the for loop at index i.  Reading "high" of a dict without
\* the key raises KeyError, which ends the call.
LoopBody(st, b, i) ==
    LET prev == At(b, i - 1)
        curr == At(b, i)
    IN  IF ~curr.complete \/ ~prev.complete THEN [st EXCEPT !.raised = "KeyError"]
        ELSE IF ~IsInsideBar(prev, curr) THEN st
        ELSE IF IsBullish(prev, curr) THEN BullishBatch(st, prev, curr)
        ELSE BearishBatch(st, prev, curr)

RECURSIVE Loop(_, _, _)
Loop(st, b, i) ==
    IF i >= Len(b) \/ st.raised # "none" THEN st
    ELSE Loop(LoopBody(st, b, i), b, i + 1)

\* generate_signals(bars): [raised, points, lines, signal_count]; raised = "none"
\* when the call returns (points, lines).
generate_signals(b) ==
    Loop([raised |-> "none", points |-> <<>>, lines |-> <<>>, signal_count |-> 0], b, FirstIndex)

----------------------------------------------------------------------------
(* Python values and HTTP outcomes *)

\* Optional[List]: None, or a list.
None == [none |-> TRUE, items |-> <<>>]
List(s) == [none |-> FALSE, items |-> s]

\* Python truthiness of an Optional[List]: `not bars`.
Falsy(v) == v.none \/ Len(v.items) = 0

\* A response body: text that is no JSON ("invalid"), JSON that is no object
\* ("array"), or a JSON object, with or without a "bars" key.
Body(kind, has_bars, value) == [kind |-> kind, has_bars |-> has_bars, bars |-> value]
InvalidBody == Body("invalid", FALSE, None)
ArrayBody == Body("array", FALSE, None)
ObjectBody == Body("object", FALSE, None)
BarsBody(value) == Body("object", TRUE, value)

\* transport = "error": requests raised (connection refused, timeout, ...).
Outcome(transport, status, body) == [transport |-> transport, status |-> status, body |-> body]
NoOutcome == Outcome("none", 0, InvalidBody)
TransportError == Outcome("error", 0, InvalidBody)

Statuses == {200, 201, 204, 500}

FetchBars == Bars \cup {IncompleteBar}
FetchSeqs == {WithTimes(s) : s \in SeqsUpTo(FetchBars, MaxFetchLen)}

GetOutcomes ==
    {TransportError}
    \cup {Outcome("ok", 200, b) : b \in {InvalidBody, ArrayBody, ObjectBody, BarsBody(None)}}
    \cup {Outcome("ok", 200, BarsBody(List(s))) : s \in FetchSeqs}
    \cup {Outcome("ok", st, b) : st \in Statuses \ {200}, b \in {InvalidBody, ObjectBody}}

PostOutcomes ==
    {TransportError}
    \cup {Outcome("ok", st, b) : st \in Statuses, b \in {InvalidBody, ArrayBody, ObjectBody}}

\* A call's end: the value it returned, or the exception it raised.
Returned(v) == [raised |-> "none", value |-> v]
Raised(e, v) == [raised |-> e, value |-> v]

\* response.json() followed by .get(...) on the result: the exception, if any.
\* json() raises ValueError on text that is no JSON; .get on a non-dict raises
\* AttributeError.
JsonGetError(body) ==
    CASE body.kind = "invalid" -> "ValueError"
      [] body.kind = "array" -> "AttributeError"
      [] OTHER -> "none"

----------------------------------------------------------------------------
(* get_bars *)

\* The body of the try block.
GetBarsTry(o) ==
    IF o.transport = "error" THEN Raised("ConnectionError", None)
    ELSE IF o.status = 200
         THEN IF JsonGetError(o.body) # "none" THEN Raised(JsonGetError(o.body), None)
              ELSE Returned(IF o.body.has_bars THEN o.body.bars ELSE List(<<>>))
         ELSE Returned(None)

\* get_bars without its except clause.
GetBarsUncaught(o) == GetBarsTry(o)

\* try: ... except Exception: return None
get_bars(o) ==
    LET r == GetBarsTry(o)
    IN  IF r.raised # "none" THEN Returned(None) ELSE r

----------------------------------------------------------------------------
(* submit_signals *)

SubmitTry(o) ==
    IF o.transport = "error" THEN Raised("ConnectionError", FALSE)
    ELSE IF o.status \in {200, 201}
         THEN IF JsonGetError(o.body) # "none" THEN Raised(JsonGetError(o.body), FALSE)
              ELSE Returned(TRUE)
         ELSE Returned(FALSE)

\* try: ... except Exception: return False
submit_signals(o) ==
    LET r == SubmitTry(o)
    IN  IF r.raised # "none" THEN Returned(FALSE) ELSE r

----------------------------------------------------------------------------
(* run_once and run_continuous *)

Intervals == {-1, 300}

PyBool(b) == IF b THEN "True" ELSE "False"

CountLabel(pts, label) == Cardinality({k \in 1..Len(pts) : pts[k].label = label})

\* The metadata dict of run_once, without its wall-clock timestamp.
Metadata(pts, lns) ==
    [total_points |-> Len(pts), total_lines |-> Len(lns),
     buy_count |-> CountLabel(pts, "BUY"), sell_count |-> CountLabel(pts, "SELL"),
     strategy |-> "Inside Bar with Multi-TP + Lines"]

Payload(pts, lns, metadata) ==
    [version |-> "1.0", points |-> pts, lines |-> lns, metadata |-> metadata]

NoPayload == Payload(<<>>, <<>>, Metadata(<<>>, <<>>))

\* The locals of a cycle before run_once has done anything.
FreshCycle ==
    /\ get_resp = NoOutcome
    /\ bars = None
    /\ points = <<>>
    /\ lines = <<>>
    /\ post_resp = NoOutcome
    /\ payload = NoPayload
    /\ result = "none"
    /\ success = "none"
    /\ exc = "none"
    /\ calls = <<>>

\* The test `bars is None` in place of `not bars`.
AbortsOnNone(v) == v.none

\* `if not bars: return False`
AbortsOnBars(v) == Falsy(v)

\* `if not points and not lines: return True`
NothingToSend(pts, lns) == Len(pts) = 0 /\ Len(lns) = 0

\* run_once returns v to its caller: run_continuous goes on to its sleep, the
\* single-shot entry point exits.
ReturnFromRunOnce(v) ==
    /\ result' = v
    /\ pc' = IF mode = "continuous" THEN "sleep" ELSE "exit"

\* The handlers of run_continuous's try: KeyboardInterrupt breaks out of the
\* loop, any other Exception goes to the handler that sleeps and retries.
HandlerFor(e) == IF e = "KeyboardInterrupt" THEN "stopped" ELSE "err_sleep"

\* Exception e leaves run_once: run_continuous's try handles it, the
\* single-shot entry point lets it escape.
RaiseFromRunOnce(e) ==
    /\ exc' = e
    /\ pc' = IF mode = "continuous" THEN HandlerFor(e) ELSE "crashed"

\* bars = get_bars(...); if not bars: return False
GetBars ==
    /\ pc = "get_bars"
    /\ \E o \in GetOutcomes :
         LET r == get_bars(o)
         IN  /\ get_resp' = o
             /\ calls' = Append(calls, "get_bars")
             /\ IF r.raised # "none"
                THEN /\ RaiseFromRunOnce(r.raised)
                     /\ UNCHANGED <<bars, result>>
                ELSE /\ bars' = r.value
                     /\ exc' = exc
                     /\ IF AbortsOnBars(r.value)
                        THEN ReturnFromRunOnce("False")
                        ELSE pc' = "generate" /\ result' = result
    /\ UNCHANGED <<mode, scale, interval, interrupted, points, lines, post_resp, payload, success>>

\* points, lines = generate_signals(bars); if not points and not lines: return True
Generate ==
    /\ pc = "generate"
    /\ LET r == generate_signals(bars.items)
       IN  /\ calls' = Append(calls, "generate_signals")
           /\ IF r.raised # "none"
              THEN /\ RaiseFromRunOnce(r.raised)
                   /\ UNCHANGED <<points, lines, result>>
              ELSE /\ points' = r.points
                   /\ lines' = r.lines
                   /\ exc' = exc
                   /\ IF NothingToSend(r.points, r.lines)
                      THEN ReturnFromRunOnce("True")
                      ELSE pc' = "submit" /\ result' = result
    /\ UNCHANGED <<mode, scale, interval, interrupted, get_resp, bars, post_resp, payload, success>>

\* success = submit_signals(...); return success
Submit ==
    /\ pc = "submit"
    /\ \E o \in PostOutcomes :
         LET r == submit_signals(o)
         IN  /\ post_resp' = o
             /\ payload' = Payload(points, lines, Metadata(points, lines))
             /\ calls' = Append(calls, "submit_signals")
             /\ IF r.raised # "none"
                THEN /\ RaiseFromRunOnce(r.raised)
                     /\ UNCHANGED <<success, result>>
                ELSE /\ success' = PyBool(r.value)
                     /\ exc' = exc
                     /\ ReturnFromRunOnce(PyBool(r.value))
    /\ UNCHANGED <<mode, scale, interval, interrupted, get_resp, bars, points, lines>>

\* The call run_once makes at each of its steps.
CallAt(step) ==
    IF step = "get_bars" THEN "get_bars"
    ELSE IF step = "generate" THEN "generate_signals"
    ELSE "submit_signals"

\* What run_once has done of its current step when an asynchronous Ctrl+C
\* strikes:
\*   - nothing yet (it is printing);
\*   - the call is entered and has made no request (submit_signals is building
\*     its url, headers and payload; nothing is posted);
\*   - requests.post has been handed the payload and has no response;
\*   - the server has answered and the call has not returned;
\*   - the call has returned and its result is assigned while run_once has
\*     neither returned nor started its next call.
InterruptedStep ==
    \/ UNCHANGED <<get_resp, bars, points, lines, post_resp, payload, success, calls>>
    \/ /\ calls' = Append(calls, CallAt(pc))
       /\ \/ UNCHANGED <<get_resp, bars, points, lines, post_resp, payload, success>>
          \/ /\ pc = "submit"
             /\ payload' = Payload(points, lines, Metadata(points, lines))
             /\ UNCHANGED <<get_resp, bars, points, lines, post_resp, success>>
          \/ /\ pc = "get_bars"
             /\ \E o \in GetOutcomes :
                   /\ get_resp' = o
                   /\ bars' \in {bars, get_bars(o).value}
             /\ UNCHANGED <<points, lines, post_resp, payload, success>>
          \/ /\ pc = "generate"
             /\ generate_signals(bars.items).raised = "none"
             /\ points' = generate_signals(bars.items).points
             /\ lines' = generate_signals(bars.items).lines
             /\ UNCHANGED <<get_resp, bars, post_resp, payload, success>>
          \/ /\ pc = "submit"
             /\ payload' = Payload(points, lines, Metadata(points, lines))
             /\ \E o \in PostOutcomes :
                   /\ post_resp' = o
                   /\ success' \in {success, PyBool(submit_signals(o).value)}
             /\ UNCHANGED <<get_resp, bars, points, lines>>

\* Ctrl+C while run_once is fetching, generating or submitting: neither
\* get_bars nor submit_signals catches KeyboardInterrupt (except Exception).
InterruptRunOnce ==
    /\ pc \in {"get_bars", "generate", "submit"}
    /\ InterruptedStep
    /\ RaiseFromRunOnce("KeyboardInterrupt")
    /\ interrupted' = pc
    /\ UNCHANGED <<mode, scale, interval, result>>

\* The next iteration of `while True`: run_once starts with fresh locals.
NextCycle ==
    /\ pc' = "get_bars"
    /\ get_resp' = NoOutcome
    /\ bars' = None
    /\ points' = <<>>
    /\ lines' = <<>>
    /\ post_resp' = NoOutcome
    /\ payload' = NoPayload
    /\ result' = "none"
    /\ success' = "none"
    /\ exc' = "none"
    /\ calls' = <<>>

\* time.sleep(secs) raises ValueError for a negative length.
SleepError(secs) == IF secs < 0 THEN "ValueError" ELSE "none"

\* time.sleep(interval_seconds) inside the try (after run_once returned).
Sleep ==
    /\ pc = "sleep"
    /\ IF SleepError(interval) # "none"
       THEN /\ exc' = SleepError(interval)
            /\ pc' = HandlerFor(SleepError(interval))
            /\ calls' = Append(calls, "sleep")
            /\ UNCHANGED <<get_resp, bars, points, lines, post_resp, payload, result, success>>
       ELSE NextCycle
    /\ UNCHANGED <<mode, scale, interval, interrupted>>

\* What line 414/415 (or 420-422) has done when Ctrl+C strikes: it is still
\* printing, or time.sleep, which accepted its argument, is blocking.
InterruptedSleep ==
    \/ calls' = calls
    \/ /\ SleepError(interval) = "none"
       /\ calls' = Append(calls, "sleep")

\* Ctrl+C before or during the sleep inside the try: except KeyboardInterrupt:
\* break.
InterruptSleep ==
    /\ pc = "sleep"
    /\ InterruptedSleep
    /\ exc' = "KeyboardInterrupt"
    /\ interrupted' = "sleep"
    /\ pc' = HandlerFor("KeyboardInterrupt")
    /\ UNCHANGED <<mode, scale, interval, get_resp, bars, points, lines, post_resp,
                   payload, result, success>>

\* Ctrl+C noticed when the sleep has returned and `while True` jumps back:
\* the jump lies outside the try, so no handler of run_continuous catches it.
InterruptLoopJump ==
    /\ pc \in {"sleep", "err_sleep"}
    /\ SleepError(interval) = "none"
    /\ calls' = Append(calls, "sleep")
    /\ exc' = "KeyboardInterrupt"
    /\ interrupted' = "loop_jump"
    /\ pc' = "crashed"
    /\ UNCHANGED <<mode, scale, interval, get_resp, bars, points, lines, post_resp,
                   payload, result, success>>

\* Where an exception raised inside the `except Exception` handler goes: the
\* handler's body is outside the try, so nothing catches it.
EscapesHandler(e) == "crashed"

\* time.sleep(interval_seconds) inside the `except Exception` handler.
ErrorSleep ==
    /\ pc = "err_sleep"
    /\ IF SleepError(interval) # "none"
       THEN /\ exc' = SleepError(interval)
            /\ pc' = EscapesHandler(SleepError(interval))
            /\ calls' = Append(calls, "sleep")
            /\ UNCHANGED <<get_resp, bars, points, lines, post_resp, payload, result, success>>
       ELSE NextCycle
    /\ UNCHANGED <<mode, scale, interval, interrupted>>

\* Ctrl+C before or during the sleep inside the `except Exception` handler.
InterruptErrorSleep ==
    /\ pc = "err_sleep"
    /\ InterruptedSleep
    /\ exc' = "KeyboardInterrupt"
    /\ interrupted' = "err_sleep"
    /\ pc' = EscapesHandler("KeyboardInterrupt")
    /\ UNCHANGED <<mode, scale, interval, get_resp, bars, points, lines, post_resp,
                   payload, result, success>>

\* The two prints of run_continuous are done: `while True: try:` is entered.
EnterLoop ==
    /\ pc = "start"
    /\ pc' = "get_bars"
    /\ UNCHANGED <<mode, scale, interval, interrupted, get_resp, bars, points, lines,
                   post_resp, payload, result, exc, success, calls>>

\* Ctrl+C during the two prints that precede the loop: no try is open yet.
InterruptStart ==
    /\ pc = "start"
    /\ exc' = "KeyboardInterrupt"
    /\ interrupted' = "start"
    /\ pc' = "crashed"
    /\ UNCHANGED <<mode, scale, interval, get_resp, bars, points, lines, post_resp,
                   payload, result, success, calls>>

\* run_continuous(interval_seconds)
Init ==
    /\ mode = "continuous"
    /\ scale = "decimal"
    /\ interval \in Intervals
    /\ pc = "start"
    /\ interrupted = "none"
    /\ FreshCycle

Next ==
    \/ EnterLoop
    \/ InterruptStart
    \/ GetBars
    \/ Generate
    \/ Submit
    \/ InterruptRunOnce
    \/ Sleep
    \/ InterruptSleep
    \/ ErrorSleep
    \/ InterruptErrorSleep
    \/ InterruptLoopJump

Spec == Init /\ [][Next]_vars

\* run_once() as the single-shot entry point
InitOnce ==
    /\ mode = "once"
    /\ scale = "decimal"
    /\ interval = 300
    /\ pc = "get_bars"
    /\ interrupted = "none"
    /\ FreshCycle

NextOnce ==
    \/ GetBars
    \/ Generate
    \/ Submit
    \/ InterruptRunOnce

SpecOnce == InitOnce /\ [][NextOnce]_vars

\* The locals around a lone generate_signals(bars) call.
GenerateEntry ==
    /\ mode = "generate"
    /\ interval = 300
    /\ pc = "generate"
    /\ interrupted = "none"
    /\ get_resp = NoOutcome
    /\ points = <<>>
    /\ lines = <<>>
    /\ post_resp = NoOutcome
    /\ payload = NoPayload
    /\ result = "none"
    /\ success = "none"
    /\ exc = "none"
    /\ calls = <<>>

\* generate_signals(bars) on its own, prices of the order of 1
InitGen ==
    /\ GenerateEntry
    /\ scale = "decimal"
    /\ \E n \in 0..MaxLen : \E s \in SeqsOfLen(Bars, n) : bars = List(WithTimes(s))

\* generate_signals(bars) on its own, prices of the order of 1 or of 2^44
InitFloat ==
    /\ GenerateEntry
    /\ \/ /\ scale = "decimal"
          /\ \E n \in 0..MaxLen : \E s \in SeqsOfLen(Bars, n) : bars = List(WithTimes(s))
       \/ /\ scale = "binade"
          /\ \E n \in 0..MaxLen : \E s \in SeqsOfLen(BinadeBars, n) : bars = List(WithTimes(s))

\* points, lines = generate_signals(bars)
CallGenerate ==
    /\ mode = "generate"
    /\ pc = "generate"
    /\ LET r == generate_signals(bars.items)
       IN  /\ points' = r.points
           /\ lines' = r.lines
           /\ exc' = r.raised
           /\ calls' = Append(calls, "generate_signals")
           /\ pc' = "returned"
    /\ UNCHANGED <<mode, scale, interval, interrupted, get_resp, bars, post_resp, payload, result, success>>

NextGen == CallGenerate

SpecGen == InitGen /\ [][NextGen]_vars

SpecFloat == InitFloat /\ [][NextGen]_vars

----------------------------------------------------------------------------
(* Vocabulary of the properties of generate_signals.  They are stated on the *)
(* input bars and the returned lists only.                                   *)

Returned_ == mode = "generate" /\ pc = "returned"

InputBars == bars.items

\* The bar at code index i lies strictly inside the bar before it.
InsidePair(b, i) == At(b, i).high < At(b, i - 1).high /\ At(b, i).low > At(b, i - 1).low

\* The code indices at which a batch is emitted, and the position (from 0) of
\* the batch of index i among them.
BatchIndices(b) == {i \in 2..(Len(b) - 1) : InsidePair(b, i)}
BatchNo(b, i) == Cardinality({j \in BatchIndices(b) : j < i})

\* Line j (1..5) of batch k (from 0) of the returned lines.
BatchLine(k, j) == lines[5 * k + j]

ExpectedSignalId(k) ==
    CASE k = 0 -> "signal_000" [] k = 1 -> "signal_001" [] k = 2 -> "signal_002"
      [] k = 3 -> "signal_003" [] k = 4 -> "signal_004"

Suffix(j) ==
    CASE j = 1 -> "_entry" [] j = 2 -> "_sl" [] j = 3 -> "_tp1" [] j = 4 -> "_tp2" [] j = 5 -> "_tp3"

\* C1: for ANY two consecutive bars (previous, current) of the input, the
\* generator emits one point and five lines exactly when current lies strictly
\* inside previous, so len(lines) = 5 * len(points) = 5 * (number of consecutive
\* pairs that are inside bars).  The pair (bars[0], bars[1]) is such a pair.
C1_EveryConsecutivePair ==
    Returned_ =>
        /\ Len(points) = Cardinality({i \in 1..(Len(InputBars) - 1) : InsidePair(InputBars, i)})
        /\ Len(lines) = 5 * Len(points)

\* The point of batch k (from 0) has the attributes of a bullish batch, or of
\* a bearish one.
BullishPoint(k) ==
    /\ points[k + 1].label = "BUY"
    /\ points[k + 1].shape = "arrowUp"
    /\ points[k + 1].type = "low"
    /\ points[k + 1].color = "#3b82f6"

BearishPoint(k) ==
    /\ points[k + 1].label = "SELL"
    /\ points[k + 1].shape = "arrowDown"
    /\ points[k + 1].type = "high"
    /\ points[k + 1].color = "#f97316"

\* Twice the binary64 number nearest to s / 2 for a sum s of two prices of the
\* order of 1, a tie going to the even mantissa.
TwiceNearestHalf(s) == IF s % 2 = 0 THEN s ELSE IF (s + 1) % 4 = 0 THEN s + 1 ELSE s - 1

\* C6 as written: every batch is bullish (BUY, arrowUp, low, #3b82f6) exactly
\* when current.close is strictly above the previous bar's midpoint
\* (previous.high + previous.low) / 2, and bearish (SELL, arrowDown, high,
\* #f97316) otherwise, equality included; the point's price is current.close
\* and its time is current.time.  The midpoint is the number halfway between
\* the two prices.
C6_ExactMidpoint ==
    Returned_ =>
        \A i \in BatchIndices(InputBars) :
            LET prev == At(InputBars, i - 1)
                curr == At(InputBars, i)
                k == BatchNo(InputBars, i)
            IN  /\ k < Len(points)
                /\ points[k + 1].price = curr.close
                /\ points[k + 1].time = curr.time
                /\ IF 2 * curr.close > prev.high + prev.low
                   THEN BullishPoint(k)
                   ELSE BearishPoint(k)

\* C6: every batch is bullish (BUY, arrowUp, low, #3b82f6) exactly when
\* current.close is strictly above the binary64 value of (previous.high +
\* previous.low) / 2, which is the double nearest to the midpoint, and bearish
\* (SELL, arrowDown, high, #f97316) otherwise, equality with that double
\* included; the point's price is current.close and its time is current.time.
C6_Direction ==
    Returned_ =>
        \A i \in BatchIndices(InputBars) :
            LET prev == At(InputBars, i - 1)
                curr == At(InputBars, i)
                k == BatchNo(InputBars, i)
            IN  /\ k < Len(points)
                /\ points[k + 1].price = curr.close
                /\ points[k + 1].time = curr.time
                /\ IF 2 * curr.close > TwiceNearestHalf(prev.high + prev.low)
                   THEN BullishPoint(k)
                   ELSE BearishPoint(k)

\* Witness of C6: a call returned a BUY batch whose close is, as a decimal, the
\* midpoint of the previous bar (1.0454 between 1.0500 and 1.0408), followed by
\* a SELL batch whose close lies above the midpoint of its previous bar and
\* equals the double nearest to it.
C6_Witness ==
    /\ Returned_
    /\ BatchIndices(InputBars) = {2, 3}
    /\ points[1].label = "BUY"
    /\ 2 * Quanta(At(InputBars, 2).close)
          = Quanta(At(InputBars, 1).high) + Quanta(At(InputBars, 1).low)
    /\ points[2].label = "SELL"
    /\ 2 * At(InputBars, 3).close > At(InputBars, 2).high + At(InputBars, 2).low
    /\ 2 * At(InputBars, 3).close = TwiceNearestHalf(At(InputBars, 2).high + At(InputBars, 2).low)

\* C7: with entry = current.close, a bullish batch has SL = previous.low -
\* 0.0005 and TPk = entry + k * (entry - SL); a bearish batch has SL =
\* previous.high + 0.0005 and TPk = entry - k * (SL - entry), k = 1, 2, 3.  The
\* five lines come in the order entry, sl, tp1, tp2, tp3, each with
\* start_time = current.time and bars = 15.  The stop loss is the double
\* nearest to the difference or sum (0.0005 is 80656 / 125 ulps), within half
\* an ulp of it; the take-profits are exact.
C7_PriceLevels ==
    Returned_ =>
        \A i \in BatchIndices(InputBars) :
            LET prev == At(InputBars, i - 1)
                curr == At(InputBars, i)
                k == BatchNo(InputBars, i)
                entry == curr.close
                bullish == points[k + 1].label = "BUY"
                sl == BatchLine(k, 2).price
                exact125 == IF bullish THEN 125 * prev.low - 80656 ELSE 125 * prev.high + 80656
                tp(m) == IF bullish THEN entry + m * (entry - sl) ELSE entry - m * (sl - entry)
            IN  /\ k < Len(points)
                /\ Len(lines) >= 5 * k + 5
                /\ BatchLine(k, 1).price = entry
                /\ 2 * (125 * sl - exact125) <= 125
                /\ 2 * (exact125 - 125 * sl) <= 125
                /\ Quanta(sl) = (IF bullish THEN Quanta(prev.low) - 10 ELSE Quanta(prev.high) + 10)
                /\ \A m \in 1..3 : BatchLine(k, 2 + m).price = tp(m)
                /\ \A j \in 1..5 :
                      /\ BatchLine(k, j).id = ExpectedSignalId(k) \o Suffix(j)
                      /\ BatchLine(k, j).start_time = curr.time
                      /\ BatchLine(k, j).bars = 15

\* Witness of C7: a call returned a bullish batch and then a bearish batch;
\* the first has entry 1.0456, SL 1.0403 (previous low 1.0408) and TP1 1.0509.
C7_Witness ==
    /\ Returned_
    /\ Len(lines) = 10
    /\ points[1].label = "BUY"
    /\ points[2].label = "SELL"
    /\ lines[1].label = "Entry: 1.04560"
    /\ lines[2].label = "SL: 1.04030"
    /\ lines[3].label = "TP1: 1.05090"
    /\ lines[2].price < lines[1].price
    /\ lines[7].price > lines[6].price
    /\ lines[10].price < lines[6].price

\* C9: the k-th emitted batch (k = 0, 1, ...) names its lines
\* signal_<k, 3 digits>_entry, _sl, _tp1, _tp2, _tp3; the counter advances by
\* one per emitted batch and not for a bar that does not match, so the ids of
\* the returned lines are pairwise distinct, and a call starts at signal_000.
C9_SignalIds ==
    Returned_ =>
        /\ Len(lines) = 5 * Cardinality(BatchIndices(InputBars))
        /\ \A n \in 1..Len(lines) :
              lines[n].id = ExpectedSignalId((n - 1) \div 5) \o Suffix(((n - 1) % 5) + 1)
        /\ \A m, n \in 1..Len(lines) : m # n => lines[m].id # lines[n].id
        /\ Len(lines) > 0 => lines[1].id = "signal_000_entry"

\* Witness of C9: a call returned two batches, for the bars at indices 2 and 3.
C9_Witness ==
    /\ Returned_
    /\ BatchIndices(InputBars) = {2, 3}
    /\ lines[5].id = "signal_000_tp3"
    /\ lines[6].id = "signal_001_entry"

\* The five levels of batch k in emission order: entry, SL, TP1, TP2, TP3.
Levels(k) == [j \in 1..5 |-> BatchLine(k, j).price]

AllLowBelowHigh == \A n \in 1..Len(InputBars) : InputBars[n].low <= InputBars[n].high

\* C10 as written: when every input bar has low <= high, a bullish batch has
\* SL < entry < TP1 < TP2 < TP3 and a bearish batch has
\* TP3 < TP2 < TP1 < entry < SL, at every magnitude of the prices.
C10_StrictlyOrdered ==
    (Returned_ /\ AllLowBelowHigh) =>
        \A k \in 0..(Len(points) - 1) :
            LET v == Levels(k)
            IN  /\ points[k + 1].label = "BUY" =>
                      v[2] < v[1] /\ v[1] < v[3] /\ v[3] < v[4] /\ v[4] < v[5]
                /\ points[k + 1].label = "SELL" =>
                      v[5] < v[4] /\ v[4] < v[3] /\ v[3] < v[1] /\ v[1] < v[2]

\* C10: when every input bar has low <= high, the stop loss of every batch is
\* strictly on the losing side of the entry (SL < entry for BUY, entry < SL
\* for SELL), so the risk distance is strictly positive, and the take-profits
\* never fall back: entry <= TP1 <= TP2 <= TP3 for BUY, TP3 <= TP2 <= TP1 <=
\* entry for SELL.  Where the additions are exact (prices of the order of 1)
\* the take-profits are strictly ordered.
C10_LevelsOrdered ==
    (Returned_ /\ AllLowBelowHigh) =>
        \A k \in 0..(Len(points) - 1) :
            LET v == Levels(k)
            IN  /\ Len(lines) >= 5 * k + 5
                /\ points[k + 1].label \in {"BUY", "SELL"}
                /\ points[k + 1].label = "BUY" =>
                      /\ v[2] < v[1] /\ v[1] - v[2] > 0
                      /\ v[1] <= v[3] /\ v[3] <= v[4] /\ v[4] <= v[5]
                      /\ scale = "decimal" => (v[1] < v[3] /\ v[3] < v[4] /\ v[4] < v[5])
                /\ points[k + 1].label = "SELL" =>
                      /\ v[1] < v[2] /\ v[2] - v[1] > 0
                      /\ v[5] <= v[4] /\ v[4] <= v[3] /\ v[3] <= v[1]
                      /\ scale = "decimal" => (v[5] < v[4] /\ v[4] < v[3] /\ v[3] < v[1])

\* Witness of C10: a call on prices next to 2^44 returned a bullish batch with
\* SL < entry whose second and third take-profit round to the same number.
C10_Witness ==
    /\ Returned_
    /\ AllLowBelowHigh
    /\ scale = "binade"
    /\ Len(points) >= 1
    /\ points[1].label = "BUY"
    /\ Levels(0)[2] < Levels(0)[1]
    /\ Levels(0)[1] < Levels(0)[3]
    /\ Levels(0)[4] = Levels(0)[5]

----------------------------------------------------------------------------
(* Properties of the HTTP call sites and of the runner *)

\* get_bars (submit_signals) got an outcome of its request and returned; a
\* call that Ctrl+C cut short has not returned.
GetDone == get_resp.transport # "none" /\ interrupted # "get_bars"
PostDone == post_resp.transport # "none" /\ interrupted # "submit"

Occurrences(s, x) == Cardinality({n \in 1..Len(s) : s[n] = x})

\* C2: submit_signals returns True if and only if the response status is 200
\* or 201, whatever the response body is, and False for every other status.
C2_StatusAlone ==
    (post_resp.transport = "ok" /\ success # "none") =>
        (success = "True" <=> post_resp.status \in {200, 201})

\* C3: an interrupt arriving at any point of run_continuous's loop (during the
\* fetch, generate or submit step, during the sleep after a normal cycle, or
\* during the sleep that follows a caught error) makes it return normally; the
\* interrupt never leaves it as an uncaught exception.  Stated for the
\* intervals time.sleep accepts, so that the sleep itself raises nothing.
C3_InterruptStopsCleanly ==
    (/\ mode = "continuous"
     /\ interval >= 0
     /\ exc = "KeyboardInterrupt"
     /\ interrupted \in {"get_bars", "generate", "submit", "sleep", "err_sleep"}) => pc = "stopped"

\* C4: run_continuous never stops on a failure: the only way its loop ends is
\* an interrupt.
C4_OnlyInterruptEndsLoop ==
    (mode = "continuous" /\ pc \in {"stopped", "crashed"}) => exc = "KeyboardInterrupt"

\* C5: run_once submits at most once, and only after a fetch that returned a
\* non-empty list and a generation that returned a point or a line.  An empty
\* or absent fetch result gives False with neither generate_signals nor
\* submit_signals called; bars without an inside-bar pattern give True with no
\* submit_signals call; otherwise the result is the boolean submit_signals
\* returned.
C5_RunOnce ==
    mode = "once" =>
        /\ Occurrences(calls, "submit_signals") <= 1
        /\ Occurrences(calls, "submit_signals") = 1 =>
              /\ ~bars.none
              /\ Len(bars.items) > 0
              /\ Len(points) + Len(lines) > 0
              /\ calls = <<"get_bars", "generate_signals", "submit_signals">>
        /\ result # "none" =>
              IF bars.none \/ Len(bars.items) = 0
              THEN result = "False" /\ calls = <<"get_bars">>
              ELSE IF BatchIndices(bars.items) = {}
                   THEN result = "True" /\ calls = <<"get_bars", "generate_signals">>
                   ELSE /\ success \in {"True", "False"}
                        /\ result = success
                        /\ calls = <<"get_bars", "generate_signals", "submit_signals">>

\* Witness of C5: run_once fetched bars with a pattern, submitted once, the
\* server answered 500 and run_once returned False.
C5_Witness ==
    /\ mode = "once"
    /\ pc = "exit"
    /\ calls = <<"get_bars", "generate_signals", "submit_signals">>
    /\ post_resp.transport = "ok"
    /\ post_resp.status = 500
    /\ success = "False"
    /\ result = "False"

\* What get_bars returns on HTTP 200 according to C8 as written: the body's
\* bars array, an empty list when the key is absent.
BarsOfBody(body) == IF body.has_bars THEN body.bars ELSE List(<<>>)

\* The part of C8 that does not depend on the body of a 200 response: no
\* exception but an interrupt leaves get_bars or submit_signals, get_bars
\* returns None on a transport failure or a non-200 status, submit_signals
\* returns False on a transport failure or a status other than 200/201.
C8_Common ==
    /\ (calls # <<>> /\ calls[Len(calls)] \in {"get_bars", "submit_signals"}) =>
          exc \in {"none", "KeyboardInterrupt"}
    /\ (GetDone /\ (get_resp.transport = "error" \/ get_resp.status # 200)) => bars = None
    /\ PostDone => success \in {"True", "False"}
    /\ (PostDone /\ (post_resp.transport = "error" \/ post_resp.status \notin {200, 201})) =>
          success = "False"

\* C8 as written: the call sites turn every failure into a sentinel and never
\* raise; on HTTP 200 get_bars returns the body's bars array (an empty list
\* when the key is absent), whatever the body is.
C8_SentinelsAsWritten ==
    /\ C8_Common
    /\ (GetDone /\ get_resp.transport = "ok" /\ get_resp.status = 200) =>
          bars = BarsOfBody(get_resp.body)

\* C8 amended: as C8, but on HTTP 200 get_bars returns the value under the
\* body's bars key (an empty list when the key is absent) only when the body
\* is a JSON object; a 200 body that is no JSON or no JSON object gives None.
C8_Sentinels ==
    /\ C8_Common
    /\ (GetDone /\ get_resp.transport = "ok" /\ get_resp.status = 200) =>
          bars = IF get_resp.body.kind = "object" THEN BarsOfBody(get_resp.body) ELSE None

\* Witness of C8: the GET answered 200 with a body that is no JSON; get_bars
\* returned None and run_once returned False.
C8_Witness ==
    /\ get_resp = Outcome("ok", 200, InvalidBody)
    /\ calls = <<"get_bars">>
    /\ bars = None
    /\ exc = "none"
    /\ result = "False"

====
